---- MODULE Spec2Model ----
(***************************************************************************)
(* Model of lgr/action.py: the Action element of a Label Generation        *)
(* Ruleset, its construction (__init__), its evaluation against a label    *)
(* (apply) and its value identity (__eq__, __hash__).                      *)
(*                                                                         *)
(* Python's optional values are modelled as tuples: None is the empty      *)
(* tuple and a present value x is the one-element tuple <<x>>, so that     *)
(* "is not None" is a comparison with None and an empty collection stays   *)
(* distinct from None.                                                     *)
(***************************************************************************)
EXTENDS Integers, Sequences, FiniteSets, TLC

VARIABLES self, other, ret, first

vars == <<self, other, ret, first>>

\* longest list given for a variant attribute
MaxLen == 2

None == <<>>

Some(x) == <<x>>

Range(s) == {s[i] : i \in DOMAIN s}

---------------------------------------------------------------------------
(* Input domains *)

\* disposition / variant type values
Dispositions == {"valid", "blocked"}

Comments == {None, Some("c")}

RuleNames == {"r1", "r2"}

Labels == {"l1", "l2"}

\* the rules of the ruleset: each rule is its matches() result per label
AllRules == [n \in RuleNames |-> [l \in Labels |-> (n = "r1") = (l = "l1")]]

\* the dictionaries of defined rules handed to apply: any part of AllRules
Registries == {[n \in S |-> AllRules[n]] : S \in SUBSET RuleNames}

ClassesLookup == [c \in {"cls"} |-> {"l1"}]

OptRuleNames == {None} \cup {Some(n) : n \in RuleNames}

\* the values given for any_variant / all_variants / only_variants:
\* None or a list of dispositions (repetitions allowed)
VariantArgs ==
    {None} \cup {Some(s) : s \in UNION {[1..k -> Dispositions] : k \in 0..MaxLen}}

InitArgs ==
    [disp : Dispositions, comment : Comments,
     match : OptRuleNames, not_match : OptRuleNames,
     any_variant : VariantArgs, all_variants : VariantArgs,
     only_variants : VariantArgs]

---------------------------------------------------------------------------
(* Action.__init__ *)

\* FrozenOrNone testing "is not None" in place of the truth value
FrozenUnlessNone(arg) ==
    IF arg # None THEN Some(Range(arg[1])) ELSE None

\* frozenset(x) if x else None
FrozenOrNone(arg) ==
    IF arg # None /\ Len(arg[1]) > 0 THEN Some(Range(arg[1])) ELSE None

\* the attributes assigned by __init__
ActionFields(args) ==
    [disp          |-> args.disp,
     comment       |-> args.comment,
     match         |-> args.match,
     not_match     |-> args.not_match,
     any_variant   |-> FrozenOrNone(args.any_variant),
     all_variants  |-> FrozenOrNone(args.all_variants),
     only_variants |-> FrozenOrNone(args.only_variants)]

\* InitRaises accepting match and not_match that name the same rule
InitRaisesDistinct(args) ==
    args.match # None /\ args.not_match # None /\ args.match # args.not_match

\* the condition under which __init__ raises LGRFormatException
InitRaises(args) == args.match # None /\ args.not_match # None

\* a = Action(**args)
Construct(args) ==
    /\ self = None
    /\ ret.op = "none"
    /\ IF InitRaises(args)
       THEN /\ self' = None
            /\ ret' = [op |-> "init", args |-> args, outcome |-> "raise",
                       exc |-> "MATCH_NOT_MATCH"]
       ELSE /\ self' = Some(ActionFields(args))
            /\ ret' = [op |-> "init", args |-> args, outcome |-> "return",
                       exc |-> "none"]
    /\ UNCHANGED <<other, first>>

---------------------------------------------------------------------------
(* Action.apply *)

\* "First bullet": the rule condition; the caller has checked the lookup
RuleMatched(a, label, rules_lookup) ==
    IF a.match # None
    THEN rules_lookup[a.match[1]][label]
    ELSE IF a.not_match # None
         THEN ~ rules_lookup[a.not_match[1]][label]
         ELSE TRUE

\* VariantMatched testing all_variants before any_variant
VariantMatchedAllFirst(a, disp_set, only_variants) ==
    IF a.all_variants # None
    THEN Cardinality(disp_set) > 0 /\ disp_set \subseteq a.all_variants[1]
    ELSE IF a.any_variant # None
         THEN Cardinality(a.any_variant[1] \cap disp_set) > 0
         ELSE IF a.only_variants # None
              THEN /\ only_variants
                   /\ Cardinality(disp_set) > 0
                   /\ disp_set \subseteq a.only_variants[1]
              ELSE TRUE

\* VariantMatched without the len(disp_set) > 0 tests
VariantMatchedVacuous(a, disp_set, only_variants) ==
    IF a.any_variant # None
    THEN Cardinality(a.any_variant[1] \cap disp_set) > 0
    ELSE IF a.all_variants # None
         THEN disp_set \subseteq a.all_variants[1]
         ELSE IF a.only_variants # None
              THEN only_variants /\ disp_set \subseteq a.only_variants[1]
              ELSE TRUE

\* VariantMatched without the only_variants flag
VariantMatchedNoFlag(a, disp_set, only_variants) ==
    IF a.any_variant # None
    THEN Cardinality(a.any_variant[1] \cap disp_set) > 0
    ELSE IF a.all_variants # None
         THEN Cardinality(disp_set) > 0 /\ disp_set \subseteq a.all_variants[1]
         ELSE IF a.only_variants # None
              THEN /\ Cardinality(disp_set) > 0
                   /\ disp_set \subseteq a.only_variants[1]
              ELSE TRUE

\* "Second bullet": the variant condition
VariantMatched(a, disp_set, only_variants) ==
    IF a.any_variant # None
    THEN Cardinality(a.any_variant[1] \cap disp_set) > 0
    ELSE IF a.all_variants # None
         THEN Cardinality(disp_set) > 0 /\ disp_set \subseteq a.all_variants[1]
         ELSE IF a.only_variants # None
              THEN /\ only_variants
                   /\ Cardinality(disp_set) > 0
                   /\ disp_set \subseteq a.only_variants[1]
              ELSE TRUE

\* LookupFails with the not_match lookup in a plain else branch
LookupFailsElse(a, rules_lookup) ==
    IF a.match # None
    THEN a.match[1] \notin DOMAIN rules_lookup
    ELSE a.not_match = None \/ a.not_match[1] \notin DOMAIN rules_lookup

\* rules_lookup[name] raises KeyError
LookupFails(a, rules_lookup) ==
    IF a.match # None
    THEN a.match[1] \notin DOMAIN rules_lookup
    ELSE IF a.not_match # None
         THEN a.not_match[1] \notin DOMAIN rules_lookup
         ELSE FALSE

\* ApplyResult triggering when any of the two conditions holds
ApplyResultAny(a, label, disp_set, only_variants, rules_lookup) ==
    IF LookupFails(a, rules_lookup)
    THEN [outcome |-> "raise", exc |-> "KeyError", value |-> None]
    ELSE IF \/ RuleMatched(a, label, rules_lookup)
            \/ VariantMatched(a, disp_set, only_variants)
         THEN [outcome |-> "return", exc |-> "none", value |-> Some(a.disp)]
         ELSE [outcome |-> "return", exc |-> "none", value |-> None]

\* ApplyResult returning early, before the rule lookup, when the variant
\* condition fails
ApplyResultVariantFirst(a, label, disp_set, only_variants, rules_lookup) ==
    IF ~ VariantMatched(a, disp_set, only_variants)
    THEN [outcome |-> "return", exc |-> "none", value |-> None]
    ELSE IF LookupFails(a, rules_lookup)
         THEN [outcome |-> "raise", exc |-> "KeyError", value |-> None]
         ELSE IF RuleMatched(a, label, rules_lookup)
              THEN [outcome |-> "return", exc |-> "none",
                    value |-> Some(a.disp)]
              ELSE [outcome |-> "return", exc |-> "none", value |-> None]

\* the outcome of a.apply(label, disp_set, only_variants, rules_lookup, ...)
ApplyResult(a, label, disp_set, only_variants, rules_lookup) ==
    IF LookupFails(a, rules_lookup)
    THEN [outcome |-> "raise", exc |-> "KeyError", value |-> None]
    ELSE IF /\ RuleMatched(a, label, rules_lookup)
            /\ VariantMatched(a, disp_set, only_variants)
         THEN [outcome |-> "return", exc |-> "none", value |-> Some(a.disp)]
         ELSE [outcome |-> "return", exc |-> "none", value |-> None]

\* ApplyStep keeping the any_variant intersection in the Action
ApplyStepStoring(label, disp_set, only_variants, rules_lookup) ==
    /\ self # None
    /\ LET r == ApplyResult(self[1], label, disp_set, only_variants,
                            rules_lookup)
           call == [label |-> label, disp_set |-> disp_set,
                    only_variants |-> only_variants,
                    rules_lookup |-> rules_lookup,
                    classes_lookup |-> ClassesLookup]
       IN /\ ret' = [op |-> "apply", call |-> call,
                     disp_set_after |-> disp_set,
                     rules_after |-> rules_lookup,
                     classes_after |-> ClassesLookup,
                     outcome |-> r.outcome, exc |-> r.exc, value |-> r.value]
          /\ first' = IF first = None
                      THEN Some([call |-> call, result |-> r, between |-> FALSE])
                      ELSE IF first[1].call # call
                           THEN Some([first[1] EXCEPT !.between = TRUE])
                           ELSE first
          /\ self' = IF self[1].any_variant # None /\ r.outcome = "return"
                     THEN Some([self[1] EXCEPT
                                  !.any_variant =
                                      Some(self[1].any_variant[1]
                                               \cap disp_set)])
                     ELSE self
    /\ UNCHANGED other

\* one call of self.apply; ret keeps the arguments as passed, the contents
\* of the passed objects after the call, and the outcome
ApplyStep(label, disp_set, only_variants, rules_lookup) ==
    /\ self # None
    /\ LET r == ApplyResult(self[1], label, disp_set, only_variants,
                            rules_lookup)
           call == [label |-> label, disp_set |-> disp_set,
                    only_variants |-> only_variants,
                    rules_lookup |-> rules_lookup,
                    classes_lookup |-> ClassesLookup]
       IN /\ ret' = [op |-> "apply", call |-> call,
                     disp_set_after |-> disp_set,
                     rules_after |-> rules_lookup,
                     classes_after |-> ClassesLookup,
                     outcome |-> r.outcome, exc |-> r.exc, value |-> r.value]
          /\ first' = IF first = None
                      THEN Some([call |-> call, result |-> r, between |-> FALSE])
                      ELSE IF first[1].call # call
                           THEN Some([first[1] EXCEPT !.between = TRUE])
                           ELSE first
    /\ UNCHANGED <<self, other>>

---------------------------------------------------------------------------
(* Action.__eq__ and Action.__hash__ *)

\* ActionEq without the only_variants comparison
ActionEqNoOnly(a, b) ==
    /\ a.disp = b.disp
    /\ a.match = b.match
    /\ a.not_match = b.not_match
    /\ a.any_variant = b.any_variant
    /\ a.all_variants = b.all_variants

\* self == other
ActionEq(a, b) ==
    /\ a.disp = b.disp
    /\ a.match = b.match
    /\ a.not_match = b.not_match
    /\ a.any_variant = b.any_variant
    /\ a.all_variants = b.all_variants
    /\ a.only_variants = b.only_variants

\* hash of a string
HashStr(s) ==
    CASE s = "valid" -> 3
      [] s = "blocked" -> 5
      [] s = "r1" -> 11
      [] s = "r2" -> 13
      [] s = "c" -> 17
      [] OTHER -> 19

\* hash of a string or None
HashOptStr(o) == IF o = None THEN 1 ELSE HashStr(o[1])

RECURSIVE HashSet(_)
\* hash of a frozenset: a combination that does not depend on any order
HashSet(S) ==
    IF S = {} THEN 23
    ELSE LET x == CHOOSE y \in S : TRUE
         IN (HashStr(x) * HashStr(x) + HashSet(S \ {x})) % 1009

\* hash of a frozenset or None
HashOptSet(o) == IF o = None THEN 1 ELSE HashSet(o[1])

RECURSIVE HashTuple(_)
\* hash of a tuple of hashes: depends on the order of the items
HashTuple(t) ==
    IF t = <<>> THEN 29
    ELSE (HashTuple(SubSeq(t, 1, Len(t) - 1)) * 31 + t[Len(t)]) % 1009

\* hash(self)
ActionHash(a) ==
    HashTuple(<<HashStr(a.disp), HashOptStr(a.match), HashOptStr(a.not_match),
                HashOptSet(a.any_variant), HashOptSet(a.all_variants),
                HashOptSet(a.only_variants)>>)

\* b = Action(**other_args); self == b; hash(self), hash(b)
EqStep(other_args) ==
    /\ self # None
    /\ ~ InitRaises(other_args)
    /\ LET b == ActionFields(other_args)
       IN /\ other' = Some(b)
          /\ ret' = [op |-> "eq", eq |-> ActionEq(self[1], b),
                     hash_self |-> ActionHash(self[1]),
                     hash_other |-> ActionHash(b)]
    /\ UNCHANGED <<self, first>>

---------------------------------------------------------------------------
(* Specifications *)

\* the values an argument of the constructor is drawn from
ArgValues(f) ==
    IF f = "disp" THEN Dispositions
    ELSE IF f = "comment" THEN Comments
    ELSE IF f \in {"match", "not_match"} THEN OptRuleNames
    ELSE VariantArgs

\* the constructor arguments that differ from args in the comment and in at
\* most one other argument
Nearby(args) ==
    UNION {{[args EXCEPT !.comment = c, ![f] = v] :
               c \in Comments, v \in ArgValues(f)} :
           f \in DOMAIN args \ {"comment"}}

Init ==
    /\ self = None
    /\ other = None
    /\ ret = [op |-> "none"]
    /\ first = None

\* one Action is built, then evaluated once or compared with a second one
Next ==
    \/ /\ ret.op = "none"
       /\ \E args \in InitArgs : Construct(args)
    \/ /\ ret.op = "init"
       /\ \E label \in Labels, disp_set \in SUBSET Dispositions,
             only_variants \in BOOLEAN, rules_lookup \in Registries :
               ApplyStep(label, disp_set, only_variants, rules_lookup)
    \/ /\ ret.op = "init"
       /\ self # None
       /\ \E other_args \in Nearby(ret.args) : EqStep(other_args)

Spec == Init /\ [][Next]_vars

\* the Actions of the repeated-evaluation scenario
RepeatArgs ==
    {a \in InitArgs :
        /\ a.disp = "valid"
        /\ a.comment = None
        /\ a.match \in {None, Some("r1")}
        /\ a.not_match \in {None, Some("r1")}
        /\ \A f \in {"any_variant", "all_variants", "only_variants"} :
               a[f] \in {None, Some(<<"valid">>)}}

\* the registries of the repeated-evaluation scenario
RepeatRegistries == {r \in Registries : DOMAIN r \in {{}, RuleNames}}

\* one Action is built, then evaluated any number of times
NextRepeat ==
    \/ /\ ret.op = "none"
       /\ \E args \in RepeatArgs : Construct(args)
    \/ /\ self # None
       /\ \E label \in Labels, disp_set \in SUBSET Dispositions,
             only_variants \in BOOLEAN, rules_lookup \in RepeatRegistries :
               ApplyStep(label, disp_set, only_variants, rules_lookup)

SpecRepeat == Init /\ [][NextRepeat]_vars

---------------------------------------------------------------------------
(* Properties *)

\* C1: when the referenced rule is in the registry, apply returns the
\* disposition if and only if the rule condition (the rule's result for
\* match, its negation for not_match, true without either) and the variant
\* condition (the one evaluated quantifier, true without any) both hold,
\* and returns None otherwise.
C1_FiresIffRuleAndVariant ==
    (ret.op = "apply") =>
        LET a == self[1]
            c == ret.call
            name == IF a.match # None THEN a.match ELSE a.not_match
            known == name = None \/ name[1] \in DOMAIN c.rules_lookup
            rule_matched ==
                CASE a.match # None -> c.rules_lookup[a.match[1]][c.label]
                  [] a.match = None /\ a.not_match # None ->
                        ~ c.rules_lookup[a.not_match[1]][c.label]
                  [] OTHER -> TRUE
            variant_matched ==
                CASE a.any_variant # None ->
                        \E d \in c.disp_set : d \in a.any_variant[1]
                  [] a.any_variant = None /\ a.all_variants # None ->
                        /\ c.disp_set # {}
                        /\ \A d \in c.disp_set : d \in a.all_variants[1]
                  [] /\ a.any_variant = None /\ a.all_variants = None
                     /\ a.only_variants # None ->
                        /\ c.only_variants
                        /\ c.disp_set # {}
                        /\ \A d \in c.disp_set : d \in a.only_variants[1]
                  [] OTHER -> TRUE
        IN known =>
            /\ ret.outcome = "return"
            /\ ret.value = IF rule_matched /\ variant_matched
                           THEN Some(a.disp) ELSE None

\* C1 witness: the rule matches, the variant quantifier fails, apply
\* returned None
C1_Witness ==
    /\ ret.op = "apply"
    /\ self[1].match = Some("r1")
    /\ "r1" \in DOMAIN ret.call.rules_lookup
    /\ ret.call.label = "l1"
    /\ self[1].any_variant = Some({"valid"})
    /\ ret.call.disp_set = {"blocked"}
    /\ ret.outcome = "return"
    /\ ret.value = None

\* C2: the constructor fails with MATCH_NOT_MATCH exactly when match and
\* not_match are both given, whatever the other arguments; otherwise it
\* returns an Action.
C2_InitFailsIffBoth ==
    (ret.op = "init") =>
        IF ret.args.match # None /\ ret.args.not_match # None
        THEN ret.outcome = "raise" /\ ret.exc = "MATCH_NOT_MATCH" /\ self = None
        ELSE ret.outcome = "return" /\ self # None

\* C2 witness: a failed construction whose match and not_match name the
\* same rule
C2_Witness ==
    /\ ret.op = "init"
    /\ ret.args.match = Some("r1")
    /\ ret.args.not_match = Some("r1")
    /\ ret.args.any_variant = Some(<<>>)
    /\ ret.outcome = "raise"

\* C3: when match or not_match names a rule that the registry does not
\* hold, apply raises and returns neither a disposition nor None, also
\* when the variant quantifier is not satisfied.
C3_UnknownRuleRaises ==
    (ret.op = "apply") =>
        LET a == self[1]
            name == IF a.match # None THEN a.match ELSE a.not_match
        IN (name # None /\ name[1] \notin DOMAIN ret.call.rules_lookup) =>
               ret.outcome = "raise" /\ ret.exc = "KeyError"

\* C3 witness: an unknown rule and a variant quantifier that fails
C3_Witness ==
    /\ ret.op = "apply"
    /\ self[1].not_match = Some("r2")
    /\ DOMAIN ret.call.rules_lookup = {"r1"}
    /\ self[1].all_variants = Some({"valid"})
    /\ self[1].any_variant = None
    /\ ret.call.disp_set = {}
    /\ ret.outcome = "raise"

\* C4: with several quantifier attributes present, apply gives the result
\* of the Action that carries only the first present of any_variant,
\* all_variants, only_variants.
C4_FirstQuantifierOnly ==
    (ret.op = "apply") =>
        LET a == self[1]
            c == ret.call
            top == [a EXCEPT
                      !.all_variants = IF a.any_variant # None THEN None ELSE @,
                      !.only_variants = IF a.any_variant # None
                                           \/ a.all_variants # None
                                        THEN None ELSE @]
            r == ApplyResult(top, c.label, c.disp_set, c.only_variants,
                             c.rules_lookup)
        IN ret.outcome = r.outcome /\ ret.value = r.value /\ ret.exc = r.exc

\* C4 witness: any_variant is satisfied, all_variants and only_variants
\* would not be, and the action fires
C4_Witness ==
    /\ ret.op = "apply"
    /\ self[1].any_variant = Some({"valid"})
    /\ self[1].all_variants = Some({"valid"})
    /\ self[1].only_variants = Some({"blocked"})
    /\ ret.call.disp_set = {"valid", "blocked"}
    /\ ret.value = Some(self[1].disp)

\* C5: an empty list given for a quantifier attribute is stored as None:
\* the Action is the one built with that argument absent (same attributes,
\* equal, same hash, same apply results), and no constructed Action holds
\* an empty set.
C5_EmptyIsAbsent ==
    (ret.op = "init" /\ ret.outcome = "return") =>
        \A f \in {"any_variant", "all_variants", "only_variants"} :
            /\ self[1][f] # Some({})
            /\ (ret.args[f] = Some(<<>>)) =>
                  LET b == ActionFields([ret.args EXCEPT ![f] = None])
                  IN /\ self[1][f] = None
                     /\ self[1] = b
                     /\ ActionEq(self[1], b)
                     /\ ActionHash(self[1]) = ActionHash(b)
                     /\ \A l \in Labels, ds \in SUBSET Dispositions,
                           ov \in BOOLEAN, rl \in Registries :
                            ApplyResult(self[1], l, ds, ov, rl)
                                = ApplyResult(b, l, ds, ov, rl)

\* C5 witness: any_variant given as an empty list next to a present
\* all_variants
C5_Witness ==
    /\ ret.op = "init"
    /\ ret.outcome = "return"
    /\ ret.args.any_variant = Some(<<>>)
    /\ ret.args.all_variants = Some(<<"valid", "valid">>)
    /\ self[1].any_variant = None
    /\ self[1].all_variants = Some({"valid"})

\* C6: when all_variants or only_variants is the evaluated quantifier and
\* the rule lookup succeeds, an empty disp_set makes apply return None;
\* with a non-empty disp_set and the rule condition holding, an Action whose
\* evaluated quantifier is all_variants fires exactly when disp_set is a
\* subset of all_variants.
C6_EmptyDispSetNeverSatisfies ==
    (ret.op = "apply") =>
        LET a == self[1]
            c == ret.call
            name == IF a.match # None THEN a.match ELSE a.not_match
            known == name = None \/ name[1] \in DOMAIN c.rules_lookup
        IN /\ (/\ known
               /\ a.any_variant = None
               /\ a.all_variants # None \/ a.only_variants # None
               /\ c.disp_set = {}) =>
                  ret.outcome = "return" /\ ret.value = None
           /\ (/\ known
               /\ a.any_variant = None
               /\ a.all_variants # None
               /\ c.disp_set # {}
               /\ RuleMatched(a, c.label, c.rules_lookup)) =>
                  /\ ret.outcome = "return"
                  /\ ret.value = Some(a.disp)
                        <=> c.disp_set \subseteq a.all_variants[1]

\* C6 witness: all_variants evaluated on an empty disp_set with no rule
\* condition, apply returned None
C6_Witness ==
    /\ ret.op = "apply"
    /\ self[1].match = None
    /\ self[1].not_match = None
    /\ self[1].any_variant = None
    /\ self[1].all_variants = Some({"valid", "blocked"})
    /\ ret.call.disp_set = {}
    /\ ret.outcome = "return"
    /\ ret.value = None

\* C7: when only_variants is the evaluated quantifier and the rule lookup
\* succeeds, apply with the flag false returns None; with the flag true it
\* returns what the Action with the same set as all_variants returns.
C7_OnlyVariantsNeedsFlag ==
    (ret.op = "apply") =>
        LET a == self[1]
            c == ret.call
            name == IF a.match # None THEN a.match ELSE a.not_match
            known == name = None \/ name[1] \in DOMAIN c.rules_lookup
            asAll == [a EXCEPT !.all_variants = a.only_variants,
                               !.only_variants = None]
        IN (/\ known
            /\ a.any_variant = None
            /\ a.all_variants = None
            /\ a.only_variants # None) =>
              /\ ret.outcome = "return"
              /\ IF c.only_variants
                 THEN /\ ret.value = ApplyResult(asAll, c.label, c.disp_set,
                                                 TRUE, c.rules_lookup).value
                      /\ RuleMatched(a, c.label, c.rules_lookup) =>
                           (ret.value = Some(a.disp)
                               <=> /\ c.disp_set # {}
                                   /\ c.disp_set \subseteq a.only_variants[1])
                 ELSE ret.value = None

\* C7 witness: only_variants evaluated with the flag false on a disp_set
\* inside the set, no rule condition, apply returned None
C7_Witness ==
    /\ ret.op = "apply"
    /\ self[1].match = None
    /\ self[1].not_match = None
    /\ self[1].any_variant = None
    /\ self[1].all_variants = None
    /\ self[1].only_variants = Some({"valid"})
    /\ ret.call.disp_set = {"valid"}
    /\ ~ ret.call.only_variants
    /\ ret.value = None

\* C8: two Actions are equal exactly when disp, match, not_match,
\* any_variant, all_variants and only_variants are equal, whatever the
\* comments, and equal Actions have the same hash.
C8_EqualIffSixFields ==
    (ret.op = "eq") =>
        LET a == self[1]
            b == other[1]
            same == \A f \in {"disp", "match", "not_match", "any_variant",
                              "all_variants", "only_variants"} : a[f] = b[f]
        IN /\ ret.eq <=> same
           /\ ret.eq => ret.hash_self = ret.hash_other

\* C8 witness: equal Actions with different comments
C8_Witness ==
    /\ ret.op = "eq"
    /\ ret.eq
    /\ self[1].comment # other[1].comment
    /\ self[1].only_variants = Some({"valid", "blocked"})
    /\ ret.hash_self = ret.hash_other

\* C9: an Action without match, not_match and quantifier attributes
\* returns its disposition from every apply and never raises.
C9_UnconditionalFires ==
    (ret.op = "apply") =>
        LET a == self[1]
        IN (/\ a.match = None /\ a.not_match = None
            /\ a.any_variant = None /\ a.all_variants = None
            /\ a.only_variants = None) =>
               ret.outcome = "return" /\ ret.value = Some(a.disp)

\* C9 witness: the unconditional Action fired on an empty disp_set with an
\* empty registry
C9_Witness ==
    /\ ret.op = "apply"
    /\ self[1].match = None /\ self[1].not_match = None
    /\ self[1].any_variant = None /\ self[1].all_variants = None
    /\ self[1].only_variants = None
    /\ ret.call.disp_set = {}
    /\ DOMAIN ret.call.rules_lookup = {}
    /\ ret.value = Some(self[1].disp)

\* C10: an apply call leaves the Action, the disp_set and the registries
\* as they were, and a call with the arguments of the first call returns
\* what the first call returned, whatever was evaluated in between.
C10_ApplyIsPure ==
    /\ [][(ret'.op = "apply") =>
             /\ self' = self
             /\ other' = other
             /\ ret'.disp_set_after = ret'.call.disp_set
             /\ ret'.rules_after = ret'.call.rules_lookup
             /\ ret'.classes_after = ret'.call.classes_lookup]_vars
    /\ [](ret.op = "apply" /\ first # None /\ ret.call = first[1].call =>
             /\ ret.outcome = first[1].result.outcome
             /\ ret.value = first[1].result.value
             /\ ret.exc = first[1].result.exc)

\* C10 witness: the first call fired, other calls followed, and the first
\* call was repeated
C10_Witness ==
    /\ ret.op = "apply"
    /\ first # None
    /\ first[1].between
    /\ ret.call = first[1].call
    /\ self[1].any_variant # None
    /\ ret.value = Some(self[1].disp)

====
